---- MODULE Spec2Model ----
(***************************************************************************)
(* The nftables ipset manager of internal/home/authglinet.go (package      *)
(* ipset): config parsing, set resolution, suffix lookup of a host, the    *)
(* dedup cache of added addresses, and the mutex-guarded Add and Close.    *)
(*                                                                         *)
(* Strings are sequences of one-character strings, net.IP values are       *)
(* sequences of bytes, Go's nil slice is the empty sequence.               *)
(***************************************************************************)
EXTENDS Integers, Sequences, FiniteSets, TLC

VARIABLES
    conf,        \* conf.Lines handed to newManager
    mgr,         \* the manager: its state, nameToIpset, domainToIpsets, error of newManager
    getSetLog,   \* the GetSetByName queries made on the connection, in order
    addedIPs,    \* manager.addedIPs: the set of ipInIpsetEntry values
    kernel,      \* the elements each kernel set holds, by <<table name, set name>>
    closeCount,  \* how many times conn.CloseLasting has been invoked
    closeCalls,  \* how many calls of manager.Close have been made
    last,        \* the most recent Add call: arguments, results, what it did
    prev,        \* the call before `last` when `last` repeats its arguments, else NoCall
    idFields,    \* the '#'-separated fields a generated identifier was joined from
    lk,          \* argument and result of a direct lookupHost call
    mu,          \* manager.mu: the caller holding it, or Free
    pc,          \* per caller: where it is in its call
    req,         \* per caller: the call it makes and the locals of that call
    klog         \* what concurrent callers did to the lock and the connection, in order

vars == <<conf, idFields, mgr, getSetLog, addedIPs, kernel, closeCount, closeCalls,
          last, prev, lk, mu, pc, req, klog>>

----------------------------------------------------------------------------
(* Bounds of the model.                                                    *)

\* Longest ip4s argument of an Add call, two known longer lists apart.
MaxIPs == 1
\* Longest handle list of a manager built directly.
MaxHandles == 3
\* Most '#'-separated fields of a generated set identifier.
MaxFields == 5
\* Longest host handed to a direct lookupHost call.
MaxHostLen == 4
\* Most Close calls made on one manager.
MaxCloses == 2
\* Number of concurrent callers.
NumCallers == 3
\* Most lines of a generated configuration.
MaxLines == 3

----------------------------------------------------------------------------
(* Strings: the functions of package strings that the manager uses.        *)

\* strings.Index(s, c) for a one-character c: 0-based, -1 when absent.
Index(s, c) ==
    IF \E i \in 1..Len(s) : s[i] = c
    THEN (CHOOSE i \in 1..Len(s) : s[i] = c /\ \A j \in 1..(i - 1) : s[j] # c) - 1
    ELSE -1

\* s[i:] of Go, i 0-based.
SliceFrom(s, i) == SubSeq(s, i + 1, Len(s))

RECURSIVE Split(_, _)
\* strings.Split(s, c) for a one-character separator c.
Split(s, c) ==
    LET i == Index(s, c)
    IN  IF i = -1 THEN <<s>>
        ELSE <<SubSeq(s, 1, i)>> \o Split(SliceFrom(s, i + 1), c)

RECURSIVE TrimLeft(_)
TrimLeft(s) == IF s # <<>> /\ Head(s) = " " THEN TrimLeft(Tail(s)) ELSE s

RECURSIVE TrimRight(_)
TrimRight(s) ==
    IF s # <<>> /\ s[Len(s)] = " " THEN TrimRight(SubSeq(s, 1, Len(s) - 1)) ELSE s

\* strings.TrimSpace(s).
TrimSpace(s) == TrimRight(TrimLeft(s))

LowerChar(c) ==
    CASE c = "A" -> "a"
      [] c = "B" -> "b"
      [] c = "C" -> "c"
      [] OTHER -> c

\* strings.ToLower(s).
ToLower(s) == [i \in 1..Len(s) |-> LowerChar(s[i])]

RECURSIVE Join(_, _)
\* strings.Join(parts, c): builds the inputs; the manager itself never joins.
Join(parts, c) ==
    IF parts = <<>> THEN <<>>
    ELSE IF Len(parts) = 1 THEN parts[1]
    ELSE parts[1] \o <<c>> \o Join(Tail(parts), c)

----------------------------------------------------------------------------
(* The kernel: the nftables sets that exist, by <<table name, set name>>.  *)

TypeIPAddr  == "ipv4_addr"
TypeIP6Addr == "ipv6_addr"
TypeInetService == "inet_service"

TableT == <<"t">>
SetP == <<"p">>
SetQ == <<"q">>
SetX == <<"x">>

\* A persistent IPv4 set p, an IPv4 set q with timeout, an IPv6 set x.
KernelSets ==
    (<<TableT, SetP>> :> [keyType |-> TypeIPAddr,  hasTimeout |-> FALSE]) @@
    (<<TableT, SetQ>> :> [keyType |-> TypeIPAddr,  hasTimeout |-> TRUE])  @@
    (<<TableT, SetX>> :> [keyType |-> TypeIP6Addr, hasTimeout |-> FALSE])

NoSet == [table |-> <<>>, name |-> <<>>, keyType |-> "", hasTimeout |-> FALSE]

\* conn.GetSetByName(tbl, setName): the *nftables.Set, or an error.
GetSetByName(tableName, setName) ==
    IF <<tableName, setName>> \in DOMAIN KernelSets
    THEN [err |-> "",
          set |-> [table      |-> tableName,
                   name       |-> setName,
                   keyType    |-> KernelSets[<<tableName, setName>>].keyType,
                   hasTimeout |-> KernelSets[<<tableName, setName>>].hasTimeout]]
    ELSE [err |-> "getting ipset", set |-> NoSet]

----------------------------------------------------------------------------
(* Configuration parsing.                                                  *)

\* parseIpsetConfigLine(confStr): hosts, ipsetNames, err.
parseIpsetConfigLine(confStr) ==
    LET trimmed       == TrimSpace(confStr)
        hostsAndNames == Split(trimmed, "/")
    IN  IF Len(hostsAndNames) # 2
        THEN [err |-> "expected one slash", hosts |-> <<>>, ipsetNames |-> <<>>]
        ELSE
          LET rawHosts == Split(hostsAndNames[1], ",")
              rawNames == Split(hostsAndNames[2], ",")
              names    == [i \in 1..Len(rawNames) |-> TrimSpace(rawNames[i])]
          IN  IF Len(rawNames) = 0
              THEN [err |-> "", hosts |-> <<>>, ipsetNames |-> <<>>]
              ELSE IF \E i \in 1..Len(names) : Len(names[i]) = 0
              THEN [err |-> "empty ipset name", hosts |-> <<>>, ipsetNames |-> <<>>]
              ELSE [err        |-> "",
                    hosts      |-> [i \in 1..Len(rawHosts) |->
                                       ToLower(TrimSpace(rawHosts[i]))],
                    ipsetNames |-> names]

\* A parser that takes any address family token.
FamilyTokenAny(parts) == TRUE

\* The check of the address family token, parts[0] != "4".
FamilyTokenOk(parts) == parts[1] = <<"4">>

\* The check of the table family, parts[1] != "inet".
TableFamilyOk(parts) == parts[2] = <<"i", "n", "e", "t">>

\* The check of the number of fields, len(parts) != 4.
FieldCountOk(parts) == Len(parts) = 4

\* A resolution that takes a set of any key type.
KeyTypeAny(set) == TRUE

\* The check of the key type of a resolved set, set.KeyType != TypeIPAddr.
KeyTypeOk(set) == set.keyType = TypeIPAddr

\* A registry that never finds an identifier.
CachedNever(nameToIpset, n) == FALSE

\* The check of the cache, set, ok := m.nameToIpset[n].
Cached(nameToIpset, n) == n \in DOMAIN nameToIpset

\* One iteration of the loop over ipsetNames: st holds nameToIpset, the
\* ipsets gathered so far for the line, the queries made, and the error.
resolveName(st, n) ==
    LET parts == Split(n, "#")
    IN  IF ~FieldCountOk(parts) THEN [st EXCEPT !.err = "wrong format"]
        ELSE IF ~FamilyTokenOk(parts) THEN [st EXCEPT !.err = "only IPv4 sets supported"]
        ELSE IF ~TableFamilyOk(parts) THEN [st EXCEPT !.err = "only inet family supported"]
        ELSE IF Cached(st.nameToIpset, n)
        THEN [st EXCEPT !.ipsets = Append(@, st.nameToIpset[n])]
        ELSE
          LET got == GetSetByName(parts[3], parts[4])
              log == Append(st.queries, <<parts[3], parts[4]>>)
          IN  IF got.err # ""
              THEN [st EXCEPT !.err = got.err, !.queries = log]
              ELSE IF ~KeyTypeOk(got.set)
              THEN [st EXCEPT !.err = "wrong type, expected ipv4_addr", !.queries = log]
              ELSE [st EXCEPT !.nameToIpset = (n :> got.set) @@ @,
                              !.ipsets = Append(@, got.set),
                              !.queries = log]

RECURSIVE resolveNames(_, _)
\* The loop over ipsetNames of one line, stopping at the first error.
resolveNames(st, names) ==
    IF names = <<>> \/ st.err # "" THEN st
    ELSE resolveNames(resolveName(st, Head(names)), Tail(names))

\* m.domainToIpsets[host] of Go: nil, the empty list, for an absent key.
MapGet(m, k) == IF k \in DOMAIN m THEN m[k] ELSE <<>>

\* A binding that replaces the list a host already has.
appendSetsOverwrite(old, ipsets) == ipsets

\* append(m.domainToIpsets[host], ipsets...).
appendSets(old, ipsets) == old \o ipsets

RECURSIVE bindHosts(_, _, _)
\* The loop over hosts: domainToIpsets[host] = append(domainToIpsets[host], ipsets...).
bindHosts(d2i, hosts, ipsets) ==
    IF hosts = <<>> THEN d2i
    ELSE bindHosts((Head(hosts) :> appendSets(MapGet(d2i, Head(hosts)), ipsets)) @@ d2i,
                   Tail(hosts), ipsets)

RECURSIVE parseIpsetConfig(_, _)
\* manager.parseIpsetConfig over the lines still to read; st holds
\* nameToIpset, domainToIpsets, the queries made and the error.
parseIpsetConfig(st, lines) ==
    IF lines = <<>> \/ st.err # "" THEN st
    ELSE
      LET line == parseIpsetConfigLine(Head(lines))
      IN  IF line.err # "" THEN [st EXCEPT !.err = line.err]
          ELSE
            LET r == resolveNames([st EXCEPT !.ipsets = <<>>], line.ipsetNames)
            IN  IF r.err # "" THEN r
                ELSE parseIpsetConfig(
                        [r EXCEPT !.domainToIpsets =
                                     bindHosts(@, line.hosts, r.ipsets)],
                        Tail(lines))

EmptyMap == [k \in {} |-> <<>>]

NoManager(state, err) ==
    [state |-> state, nameToIpset |-> EmptyMap, domainToIpsets |-> EmptyMap,
     err |-> err]

\* newManager(ctx, conf): the manager and the queries it made.
newManager(lines, dialOk) ==
    IF ~dialOk
    THEN [m |-> NoManager("Failed", "creating nftables connection"), queries |-> <<>>]
    ELSE
      LET r == parseIpsetConfig([nameToIpset |-> EmptyMap, domainToIpsets |-> EmptyMap,
                                 ipsets |-> <<>>, queries |-> <<>>, err |-> ""],
                                lines)
      IN  IF r.err # ""
          THEN [m |-> NoManager("Failed", r.err), queries |-> r.queries]
          ELSE [m |-> [state |-> "Ready", nameToIpset |-> r.nameToIpset,
                       domainToIpsets |-> r.domainToIpsets, err |-> ""],
                queries |-> r.queries]

----------------------------------------------------------------------------
(* Host lookup.                                                            *)

RECURSIVE lookupLoopChars(_, _, _)
\* A lookup that drops one character at a time, not one label.
lookupLoopChars(d2i, host, i) ==
    LET h    == SliceFrom(host, i)
        sets == MapGet(d2i, h)
    IN  IF sets # <<>> THEN sets
        ELSE IF h = <<>> THEN MapGet(d2i, <<>>)
        ELSE lookupLoopChars(d2i, h, 1)

RECURSIVE lookupLoop(_, _, _)
\* The loop of lookupHost: host = host[i:], the map read, the next dot.
lookupLoop(d2i, host, i) ==
    LET h    == SliceFrom(host, i)
        sets == MapGet(d2i, h)
        dot  == Index(h, ".")
    IN  IF sets # <<>> THEN sets
        ELSE IF dot = -1 THEN MapGet(d2i, <<>>)
        ELSE lookupLoop(d2i, h, dot + 1)

\* manager.lookupHost(host).
lookupHost(m, host) == lookupLoop(m.domainToIpsets, host, 0)

----------------------------------------------------------------------------
(* net.IP.                                                                 *)

IPv4len == 4
IPv6len == 16

V4InV6Prefix == <<0, 0, 0, 0, 0, 0, 0, 0, 0, 0, 255, 255>>

\* ip.To4(): the 4-byte form, or nil.
To4(ip) ==
    IF Len(ip) = IPv4len THEN ip
    ELSE IF Len(ip) = IPv6len /\ SubSeq(ip, 1, 12) = V4InV6Prefix
    THEN SubSeq(ip, 13, 16)
    ELSE <<>>

\* ip.To16(): the 16-byte form, or nil.
To16(ip) ==
    IF Len(ip) = IPv4len THEN V4InV6Prefix \o ip
    ELSE IF Len(ip) = IPv6len THEN ip
    ELSE <<>>

\* copy(e.ipArr[:], b) into a zeroed [16]byte.
IPArr(b) == [i \in 1..IPv6len |-> IF i <= Len(b) THEN b[i] ELSE 0]

----------------------------------------------------------------------------
(* Adding addresses.                                                       *)

\* fmt.Sprintf("4#inet#%s#%s", set.Table.Name, set.Name).
IpsetName(set) == <<"4", "#", "i", "n", "e", "t", "#">> \o set.table \o <<"#">> \o set.name

\* The ipInIpsetEntry of an address in a set.
Entry(set, ip) == [ipsetName |-> IpsetName(set), ipArr |-> IPArr(To16(ip))]

\* A filter that never finds an address in the cache.
AlreadyAddedNever(added, e) == FALSE

\* m.addedIPs.Has(e), the test that skips an address.
AlreadyAdded(added, e) == e \in added

RECURSIVE filterIPs(_, _, _)
\* The loop over ips of addIPs: the elements and the entries to record.
filterIPs(added, set, ips) ==
    IF ips = <<>> THEN [elements |-> <<>>, newAddedEntries |-> <<>>]
    ELSE
      LET ip   == Head(ips)
          e    == Entry(set, ip)
          rest == filterIPs(added, set, Tail(ips))
      IN  IF AlreadyAdded(added, e) THEN rest
          ELSE IF To4(ip) = <<>> THEN rest
          ELSE [elements        |-> <<To4(ip)>> \o rest.elements,
                newAddedEntries |-> <<e>> \o rest.newAddedEntries]

Elems(s) == {s[i] : i \in 1..Len(s)}

\* A cache that records the addresses of sets with timeout too.
TrackedAlways(set) == TRUE

\* A cache that records nothing.
TrackedNever(set) == FALSE

\* The test guarding m.addedIPs.Add(e): only sets without timeout are tracked.
Tracked(set) == ~set.hasTimeout

\* A cache that keeps only the entries of the last handle.
recordAddedOnly(m, added, entries) ==
    {e \in Elems(entries) : Tracked(m.nameToIpset[e.ipsetName])}

\* The entries recorded after a successful flush.
recordAdded(m, added, entries) ==
    added \cup {e \in Elems(entries) : Tracked(m.nameToIpset[e.ipsetName])}

\* What the kernel answers to the two calls made for one set.
Outcomes == {"ok", "addErr", "flushErr", "flushErrApplied"}

KCall(op, set, elements, ok) ==
    [op |-> op, set |-> IpsetName(set), elements |-> elements, ok |-> ok]

KernelAdd(kern, set, elements) ==
    [kern EXCEPT ![<<set.table, set.name>>] = @ \cup Elems(elements)]

\* An addIPs that goes on after a failed flush.
FlushFailedNever(outcome) == FALSE

\* The test after m.conn.SetAddElements, err != nil.
AddFailed(outcome) == outcome = "addErr"

\* The test after m.conn.Flush, err != nil.
FlushFailed(outcome) == outcome \in {"flushErr", "flushErrApplied"}

\* Whether the kernel set holds the elements after the calls made.
Applied(outcome) == outcome \in {"ok", "flushErrApplied"}

\* manager.addIPs(host, set, ips) with the kernel answering `outcome`:
\* n, err, the kernel calls made, addedIPs and the kernel sets afterwards.
addIPs(m, added, kern, set, ips, outcome) ==
    LET f       == filterIPs(added, set, ips)
        n       == Len(f.elements)
        addCall   == KCall("SetAddElements", set, f.elements, outcome # "addErr")
        flushCall == KCall("Flush", set, <<>>,
                           outcome \notin {"flushErr", "flushErrApplied"})
        kernAfter == IF Applied(outcome) THEN KernelAdd(kern, set, f.elements) ELSE kern
        quiet   == [n |-> 0, err |-> "", calls |-> <<>>, added |-> added, kern |-> kern]
    IN  IF Len(ips) = 0 THEN quiet
        ELSE IF n = 0 THEN quiet
        ELSE IF AddFailed(outcome)
        THEN [quiet EXCEPT !.err = "adding", !.calls = <<addCall>>]
        ELSE IF FlushFailed(outcome)
        THEN [quiet EXCEPT !.err = "flushing", !.calls = <<addCall, flushCall>>,
                           !.kern = kernAfter]
        ELSE IF \E e \in Elems(f.newAddedEntries) : e.ipsetName \notin DOMAIN m.nameToIpset
        THEN [quiet EXCEPT !.err = "panic", !.calls = <<addCall, flushCall>>,
                           !.kern = kernAfter]
        ELSE [n     |-> n,
              err   |-> "",
              calls |-> <<addCall, flushCall>>,
              added |-> recordAdded(m, added, f.newAddedEntries),
              kern  |-> kernAfter]

\* A loop that goes on to the next handle after an error.
AbortOnErrorNever(err) == FALSE

\* The test of addToSets after addIPs: an error ends the loop.
AbortOnError(err) == err # ""

\* The case nftables.TypeIPAddr of the switch on set.KeyType.
IsIP4Set(set) == set.keyType = TypeIPAddr

\* A switch without the case for IPv6 sets.
IsIP6SetNever(set) == FALSE

\* The case nftables.TypeIP6Addr of the switch on set.KeyType.
IsIP6Set(set) == set.keyType = TypeIP6Addr

\* What one handle did: the branch taken, its count, its error, its kernel calls.
Step(set, branch, n, err, calls) ==
    [set |-> IpsetName(set), keyType |-> set.keyType, hasTimeout |-> set.hasTimeout,
     branch |-> branch, nn |-> n, err |-> err, calls |-> calls]

\* One iteration of the loop of addToSets; acc holds n, err, the steps taken,
\* addedIPs, the kernel sets, and whether the loop has returned.
oneSet(m, acc, set, ip4s, outcome) ==
    IF IsIP4Set(set)
    THEN LET r == addIPs(m, acc.added, acc.kern, set, ip4s, outcome)
             a == [acc EXCEPT !.trace = Append(@, Step(set, "ip4", r.n, r.err, r.calls)),
                              !.added = r.added,
                              !.kern  = r.kern]
         IN  IF AbortOnError(r.err)
             THEN [a EXCEPT !.err = r.err, !.stop = TRUE]
             ELSE [a EXCEPT !.n = @ + r.n]
    ELSE IF IsIP6Set(set)
    THEN [acc EXCEPT !.trace = Append(@, Step(set, "skip6", 0, "", <<>>))]
    ELSE [acc EXCEPT !.err = "unexpected type",
                     !.stop = TRUE,
                     !.trace = Append(@, Step(set, "badtype", 0, "unexpected type", <<>>))]

RECURSIVE addToSetsFrom(_, _, _, _, _, _)
\* The loop of addToSets from handle number i on.
addToSetsFrom(m, acc, sets, i, ip4s, oracle) ==
    IF i > Len(sets) \/ acc.stop THEN acc
    ELSE addToSetsFrom(m, oneSet(m, acc, sets[i], ip4s, oracle[i]),
                       sets, i + 1, ip4s, oracle)

\* manager.addToSets(ctx, host, ip4s, ip6s, sets).
addToSets(m, added, kern, ip4s, ip6s, sets, oracle) ==
    addToSetsFrom(m, [n |-> 0, err |-> "", trace |-> <<>>, added |-> added,
                      kern |-> kern, stop |-> FALSE],
                  sets, 1, ip4s, oracle)

\* The early return of Add, len(sets) == 0.
NoSets(sets) == Len(sets) = 0

\* The body of manager.Add between Lock and Unlock.
addLocked(m, added, kern, host, ip4s, ip6s, oracle) ==
    LET sets == lookupHost(m, host)
    IN  IF NoSets(sets)
        THEN [n |-> 0, err |-> "", trace |-> <<>>, added |-> added, kern |-> kern,
              sets |-> sets]
        ELSE LET r == addToSets(m, added, kern, ip4s, ip6s, sets, oracle)
             IN  [n |-> r.n, err |-> r.err, trace |-> r.trace, added |-> r.added,
                  kern |-> r.kern, sets |-> sets]

----------------------------------------------------------------------------
(* The inputs: configurations, hosts and addresses.                        *)

Inet == <<"i", "n", "e", "t">>

\* The identifier "4#inet#<table>#<set>".
Ident4(table, name) == Join(<<<<"4">>, Inet, table, name>>, "#")

\* The config line "<hosts>/<identifiers>".
Line(hosts, idents) == Join(hosts, ",") \o <<"/">> \o Join(idents, ",")

HostB  == <<"b">>
HostAB == <<"a", ".", "b">>
HostC  == <<"c">>
HostDB == <<"d", "b">>

\* b -> [p];  a.b and c -> [q, p], written with spaces and an upper-case letter.
ConfSuffix ==
    << Line(<<HostB>>, <<Ident4(TableT, SetP)>>),
       <<" ", "A", ".", "b", " ", ",", "c", " ", "/", " ">>
          \o Ident4(TableT, SetQ) \o <<" ", ",">> \o Ident4(TableT, SetP) >>

\* catch-all -> [p, q];  b -> [q].
ConfCatchAll ==
    << Line(<< <<>> >>, <<Ident4(TableT, SetP), Ident4(TableT, SetQ)>>),
       Line(<<HostB>>, <<Ident4(TableT, SetQ)>>) >>

\* An identifier of address family 6.
ConfFamily6 ==
    << Line(<<HostB>>, <<Join(<<<<"6">>, Inet, TableT, SetP>>, "#")>>) >>

\* A set whose key type is ipv6_addr.
ConfKeyType6 ==
    << Line(<<HostB>>, <<Ident4(TableT, SetP)>>),
       Line(<<HostC>>, <<Ident4(TableT, SetX)>>) >>

\* b -> [p, q, p]: a set named twice in one line.
ConfRepeat ==
    << Line(<<HostB>>, <<Ident4(TableT, SetP), Ident4(TableT, SetQ), Ident4(TableT, SetP)>>) >>

Configs == {ConfSuffix, ConfCatchAll, ConfFamily6, ConfKeyType6, ConfRepeat}

\* "b", its subdomain "a.b", and "db", which ends in b without being a subdomain.
Hosts == {HostB, HostAB, HostDB}

A4  == <<1, 2, 3, 4>>
A16 == V4InV6Prefix \o A4
X6  == <<18, 52, 0, 0, 0, 0, 0, 0, 0, 0, 0, 0, 0, 0, 86, 120>>

SeqsUpTo(S, n) == UNION {[1..k -> S] : k \in 0..n}

\* Every list of at most MaxIPs of 1.2.3.4 and 1234::5678, then ::ffff:1.2.3.4
\* and 1.2.3.4 twice.
IP4Lists == SeqsUpTo({A4, X6}, MaxIPs) \cup {<<A16>>, <<A4, A4>>}
IP6Lists == {<<>>, <<X6>>}

\* What the kernel answers to the calls made for each of n handles: every
\* call succeeds, or the calls for one handle fail in one of the three ways.
Oracles(n) ==
    {[i \in 1..n |-> "ok"]} \cup
    {[i \in 1..n |-> IF i = at THEN how ELSE "ok"] :
        at \in 1..n, how \in Outcomes \ {"ok"}}

----------------------------------------------------------------------------
(* The state machine of one caller.                                        *)

Free == 0
Callers == 1..NumCallers

NoCall ==
    [op |-> "None", host |-> <<>>, ip4s |-> <<>>, ip6s |-> <<>>, sets |-> <<>>,
     n |-> 0, err |-> "", trace |-> <<>>, before |-> {}]

NoLookup == [host |-> <<>>, done |-> FALSE, sets |-> <<>>]

NoReq == [op |-> "None", host |-> <<>>, ip4s |-> <<>>, sets |-> <<>>, i |-> 0,
          n |-> 0, err |-> ""]

EmptyKernel == [k \in DOMAIN KernelSets |-> {}]

InitRest2 ==
    /\ getSetLog = <<>>
    /\ addedIPs = {}
    /\ kernel = EmptyKernel
    /\ closeCount = 0
    /\ closeCalls = 0
    /\ last = NoCall
    /\ prev = NoCall
    /\ mu = Free
    /\ pc = [c \in Callers |-> "idle"]
    /\ req = [c \in Callers |-> NoReq]
    /\ klog = <<>>

InitRest == lk = NoLookup /\ InitRest2

\* Before newManager is called with one of the configurations.
Init ==
    /\ conf \in Configs
    /\ idFields = <<>>
    /\ mgr = NoManager("Uninitialized", "")
    /\ InitRest

\* newManager(ctx, conf).
NewManager ==
    /\ mgr.state = "Uninitialized"
    /\ \E dialOk \in BOOLEAN :
         \E r \in {newManager(conf, dialOk)} :
             /\ mgr' = r.m
             /\ getSetLog' = r.queries
    /\ UNCHANGED <<conf, idFields, addedIPs, kernel, closeCount, closeCalls, last, prev,
                   lk, mu, pc, req, klog>>

SameArgs(a, host, ip4s, ip6s) ==
    a.op = "Add" /\ a.host = host /\ a.ip4s = ip4s /\ a.ip6s = ip6s

\* One whole call of manager.Add by a single caller: Lock, the body, Unlock.
AddCall(host, ip4s, ip6s, oracle) ==
    \E r \in {addLocked(mgr, addedIPs, kernel, host, ip4s, ip6s, oracle)} :
        /\ addedIPs' = r.added
        /\ kernel' = r.kern
        /\ last' = [op |-> "Add", host |-> host, ip4s |-> ip4s, ip6s |-> ip6s,
                    sets |-> r.sets, n |-> r.n, err |-> r.err, trace |-> r.trace,
                    before |-> addedIPs]
        /\ prev' = IF SameArgs(last, host, ip4s, ip6s) THEN last ELSE NoCall

\* Add, called while the manager is Ready and not yet closed.
Add ==
    /\ mgr.state = "Ready"
    /\ closeCalls = 0
    /\ mu = Free
    /\ \E host \in Hosts, ip4s \in IP4Lists, ip6s \in IP6Lists :
         \E oracle \in Oracles(Len(lookupHost(mgr, host))) :
            AddCall(host, ip4s, ip6s, oracle)
    /\ UNCHANGED <<conf, idFields, mgr, getSetLog, closeCount, closeCalls, lk, mu, pc,
                   req, klog>>

\* A Close that closes the connection only the first time.
ClosesConnOnce(count) == count = 0

\* The guard of conn.CloseLasting() in Close: there is none.
ClosesConn(count) == TRUE

\* One whole call of manager.Close: Lock, conn.CloseLasting(), Unlock.
Close ==
    /\ mgr.state = "Ready"
    /\ mu = Free
    /\ closeCalls < MaxCloses
    /\ closeCalls' = closeCalls + 1
    /\ closeCount' = IF ClosesConn(closeCount) THEN closeCount + 1 ELSE closeCount
    /\ \E ok \in BOOLEAN :
         last' = [NoCall EXCEPT !.op = "Close",
                                !.err = IF ok THEN "" ELSE "closing nftables connection"]
    /\ prev' = NoCall
    /\ UNCHANGED <<conf, idFields, mgr, getSetLog, addedIPs, kernel, lk, mu, pc, req, klog>>

Next == NewManager \/ Add \/ Close

Spec == Init /\ [][Next]_vars

----------------------------------------------------------------------------
(* newManager on generated identifiers.                                    *)

\* The fields an identifier is joined from.
FieldSet == {<<"4">>, <<"6">>, Inet, <<"t">>, <<"p">>, <<"x">>}

FieldSeqs == UNION {[1..k -> FieldSet] : k \in 1..MaxFields}

\* Before newManager is called with the one line "b/<identifier>".
InitIdent ==
    /\ idFields \in FieldSeqs
    /\ conf = << Line(<<HostB>>, <<Join(idFields, "#")>>) >>
    /\ mgr = NoManager("Uninitialized", "")
    /\ InitRest

SpecInit == InitIdent /\ [][NewManager]_vars

----------------------------------------------------------------------------
(* newManager on generated configurations of several lines.                *)

\* A line as written, with the hosts it names once normalised and the names
\* of the sets it lists.
LineSpec(hosts, sets, text) == [hosts |-> hosts, sets |-> sets, text |-> text]

\* b/p;  b and c/q, p, written with spaces and an upper-case letter;  c/q;
\* b twice/q;  c/x, a set of key type ipv6_addr.
LineSpecs ==
    { LineSpec(<<HostB>>, <<SetP>>, Line(<<HostB>>, <<Ident4(TableT, SetP)>>)),
      LineSpec(<<HostB, HostC>>, <<SetQ, SetP>>,
               <<" ", "B", " ", ",", "c", "/", " ">> \o Ident4(TableT, SetQ)
                  \o <<" ", ",">> \o Ident4(TableT, SetP)),
      LineSpec(<<HostC>>, <<SetQ>>, Line(<<HostC>>, <<Ident4(TableT, SetQ)>>)),
      LineSpec(<<HostB, HostB>>, <<SetQ>>,
               Line(<<HostB, HostB>>, <<Ident4(TableT, SetQ)>>)),
      LineSpec(<<HostC>>, <<SetX>>, Line(<<HostC>>, <<Ident4(TableT, SetX)>>)) }

LineTexts == {l.text : l \in LineSpecs}

\* Before newManager is called with up to MaxLines of the lines.
InitConfig ==
    /\ conf \in SeqsUpTo(LineTexts, MaxLines)
    /\ idFields = <<>>
    /\ mgr = NoManager("Uninitialized", "")
    /\ InitRest

SpecConfig == InitConfig /\ [][NewManager]_vars

----------------------------------------------------------------------------
(* lookupHost on a manager built directly, as the benchmark builds it.     *)

DomainChars == {"a", "b", "."}

LookupHosts == SeqsUpTo(DomainChars, MaxHostLen)

\* The tails host[i:] of a host, the empty one included.
Tails(host) == {SliceFrom(host, i) : i \in 0..Len(host)}

\* The list registered for a key: one IPv4 set named after the key.
KeyedSets(key) ==
    << [table |-> TableT, name |-> key, keyType |-> TypeIPAddr, hasTimeout |-> FALSE] >>

\* A manager whose domainToIpsets has the given keys, each with its own list.
ManagerOfKeys(keys) ==
    [state |-> "Ready", nameToIpset |-> EmptyMap,
     domainToIpsets |-> [k \in keys |-> KeyedSets(k)], err |-> ""]

\* A host and a manager registering any of the host's tails.
InitLookup ==
    /\ \E host \in LookupHosts :
         /\ lk = [host |-> host, done |-> FALSE, sets |-> <<>>]
         /\ \E keys \in SUBSET Tails(host) : mgr = ManagerOfKeys(keys)
    /\ conf = <<>>
    /\ idFields = <<>>
    /\ InitRest2

\* m.lookupHost(host).
LookupHost ==
    /\ ~lk.done
    /\ lk' = [lk EXCEPT !.done = TRUE, !.sets = lookupHost(mgr, lk.host)]
    /\ UNCHANGED <<conf, idFields, mgr, getSetLog, addedIPs, kernel, closeCount,
                   closeCalls, last, prev, mu, pc, req, klog>>

SpecLookup == InitLookup /\ [][LookupHost]_vars

----------------------------------------------------------------------------
(* Add on a manager built directly with handles of any key type.           *)

HandleP == [table |-> TableT, name |-> SetP, keyType |-> TypeIPAddr,  hasTimeout |-> FALSE]
HandleQ == [table |-> TableT, name |-> SetQ, keyType |-> TypeIPAddr,  hasTimeout |-> TRUE]
HandleX == [table |-> TableT, name |-> SetX, keyType |-> TypeIP6Addr, hasTimeout |-> FALSE]
HandleS == [table |-> TableT, name |-> <<"s">>, keyType |-> TypeInetService,
            hasTimeout |-> FALSE]

Handles == {HandleP, HandleQ, HandleX, HandleS}

HandleLists == UNION {[1..k -> Handles] : k \in 1..MaxHandles}

\* A manager whose one domain "b" has the given handle list.
ManagerOfSets(sets) ==
    [state |-> "Ready",
     nameToIpset |-> [n \in {IpsetName(h) : h \in Handles} |->
                         CHOOSE h \in Handles : IpsetName(h) = n],
     domainToIpsets |-> (HostB :> sets),
     err |-> ""]

InitSets ==
    /\ \E sets \in HandleLists : mgr = ManagerOfSets(sets)
    /\ conf = <<>>
    /\ idFields = <<>>
    /\ InitRest

DirectIP4Lists == {<<>>, <<A4>>}

\* Add for the domain "b" of a manager built directly.
AddDirect ==
    /\ mgr.state = "Ready"
    /\ mu = Free
    /\ \E ip4s \in DirectIP4Lists, ip6s \in IP6Lists :
         \E oracle \in Oracles(Len(lookupHost(mgr, HostB))) :
            AddCall(HostB, ip4s, ip6s, oracle)
    /\ UNCHANGED <<conf, idFields, mgr, getSetLog, closeCount, closeCalls, lk, mu, pc,
                   req, klog>>

SpecSets == InitSets /\ [][AddDirect]_vars

----------------------------------------------------------------------------
(* Concurrent callers: each makes one call of Add or Close.                *)

ConcHosts == {HostB, HostAB}
ConcIP4Lists == {<<A4>>}

Event(c, ev) == [caller |-> c, ev |-> ev]

\* A lock that never blocks.
CanLockAlways(holder) == TRUE

\* m.mu.Lock() returns only while no caller holds the mutex.
CanLock(holder) == holder = Free

\* Add: m.mu.Lock() returns.
LockAdd(c) ==
    /\ mgr.state = "Ready"
    /\ pc[c] = "idle"
    /\ CanLock(mu)
    /\ mu' = c
    /\ \E host \in ConcHosts, ip4s \in ConcIP4Lists :
         req' = [req EXCEPT ![c] = [NoReq EXCEPT !.op = "Add", !.host = host,
                                                 !.ip4s = ip4s]]
    /\ pc' = [pc EXCEPT ![c] = "lookup"]
    /\ klog' = Append(klog, Event(c, "Lock"))
    /\ UNCHANGED <<conf, idFields, mgr, getSetLog, addedIPs, kernel, closeCount,
                   closeCalls, last, prev, lk>>

\* Add: lookupHost and the early return.
Lookup(c) ==
    /\ pc[c] = "lookup"
    /\ \E sets \in {lookupHost(mgr, req[c].host)} :
         IF NoSets(sets)
         THEN /\ pc' = [pc EXCEPT ![c] = "unlock"]
              /\ UNCHANGED req
         ELSE /\ pc' = [pc EXCEPT ![c] = "sets"]
              /\ req' = [req EXCEPT ![c].sets = sets, ![c].i = 1]
    /\ UNCHANGED <<conf, idFields, mgr, getSetLog, addedIPs, kernel, closeCount,
                   closeCalls, last, prev, lk, mu, klog>>

RECURSIVE CallEvents(_, _)
CallEvents(c, calls) ==
    IF calls = <<>> THEN <<>>
    ELSE <<Event(c, Head(calls).op)>> \o CallEvents(c, Tail(calls))

\* Add: one iteration of the loop of addToSets.
SetStep(c) ==
    /\ pc[c] = "sets"
    /\ \E outcome \in Outcomes :
         \E a \in {oneSet(mgr,
                          [n |-> req[c].n, err |-> "", trace |-> <<>>,
                           added |-> addedIPs, kern |-> kernel, stop |-> FALSE],
                          req[c].sets[req[c].i], req[c].ip4s, outcome)} :
            /\ addedIPs' = a.added
            /\ kernel' = a.kern
            /\ klog' = klog \o CallEvents(c, a.trace[1].calls)
            /\ req' = [req EXCEPT ![c].n = a.n, ![c].err = a.err, ![c].i = @ + 1]
            /\ pc' = [pc EXCEPT ![c] =
                        IF a.stop \/ req[c].i = Len(req[c].sets) THEN "unlock" ELSE "sets"]
    /\ UNCHANGED <<conf, idFields, mgr, getSetLog, closeCount, closeCalls, last, prev,
                   lk, mu>>

\* Close: m.mu.Lock() returns.
LockClose(c) ==
    /\ mgr.state = "Ready"
    /\ pc[c] = "idle"
    /\ CanLock(mu)
    /\ mu' = c
    /\ req' = [req EXCEPT ![c] = [NoReq EXCEPT !.op = "Close"]]
    /\ pc' = [pc EXCEPT ![c] = "closing"]
    /\ closeCalls' = closeCalls + 1
    /\ klog' = Append(klog, Event(c, "Lock"))
    /\ UNCHANGED <<conf, idFields, mgr, getSetLog, addedIPs, kernel, closeCount,
                   last, prev, lk>>

\* Close: m.conn.CloseLasting().
CloseConn(c) ==
    /\ pc[c] = "closing"
    /\ IF ClosesConn(closeCount)
       THEN /\ closeCount' = closeCount + 1
            /\ klog' = Append(klog, Event(c, "CloseLasting"))
       ELSE UNCHANGED <<closeCount, klog>>
    /\ \E ok \in BOOLEAN :
         req' = [req EXCEPT ![c].err = IF ok THEN "" ELSE "closing nftables connection"]
    /\ pc' = [pc EXCEPT ![c] = "unlock"]
    /\ UNCHANGED <<conf, idFields, mgr, getSetLog, addedIPs, kernel, closeCalls,
                   last, prev, lk, mu>>

\* The deferred m.mu.Unlock() of Add and of Close.
Unlock(c) ==
    /\ pc[c] = "unlock"
    /\ mu' = Free
    /\ pc' = [pc EXCEPT ![c] = "done"]
    /\ klog' = Append(klog, Event(c, "Unlock"))
    /\ UNCHANGED <<conf, idFields, mgr, getSetLog, addedIPs, kernel, closeCount,
                   closeCalls, last, prev, lk, req>>

InitConc ==
    /\ conf = ConfSuffix
    /\ idFields = <<>>
    /\ mgr = NoManager("Uninitialized", "")
    /\ InitRest

NextConc ==
    \/ NewManager
    \/ \E c \in Callers :
         \/ LockAdd(c)
         \/ Lookup(c)
         \/ SetStep(c)
         \/ LockClose(c)
         \/ CloseConn(c)
         \/ Unlock(c)

SpecConc == InitConc /\ [][NextConc]_vars

----------------------------------------------------------------------------
(* What the claims speak of.                                               *)

RECURSIVE CallsOf(_)
\* The kernel calls of the steps of a call, in order.
CallsOf(trace) == IF trace = <<>> THEN <<>> ELSE Head(trace).calls \o CallsOf(Tail(trace))

RECURSIVE SumNN(_)
\* The sum of the counts of the steps of a call.
SumNN(trace) == IF trace = <<>> THEN 0 ELSE Head(trace).nn + SumNN(Tail(trace))

KernelErrors == {"adding", "flushing"}

\* 1.2.3.4 in either form net.IP holds it.
FormsOfA4 == {A4, A16}

\* The dedup entry of 1.2.3.4 in a set, written out.
EntryA4(set) ==
    [ipsetName |-> <<"4", "#", "i", "n", "e", "t", "#">> \o set.table \o <<"#">> \o set.name,
     ipArr |-> A16]

\* The successful pair of kernel calls that adds 1.2.3.4 to a set.
AddsA4(set) ==
    << [op |-> "SetAddElements", set |-> EntryA4(set).ipsetName,
        elements |-> <<A4>>, ok |-> TRUE],
       [op |-> "Flush", set |-> EntryA4(set).ipsetName, elements |-> <<>>, ok |-> TRUE] >>

\* `last` repeats the call `prev` for one IPv4 address and a domain of one handle.
RepeatsOneAddress ==
    /\ last.op = "Add"
    /\ prev.op = "Add"
    /\ Len(last.sets) = 1
    /\ Len(last.ip4s) = 1
    /\ last.ip4s[1] \in FormsOfA4

\* The suffixes of a host that start after a dot, and the host itself.
LabelSuffixes(host) ==
    {host} \cup {SliceFrom(host, i) : i \in {j \in 1..Len(host) : host[j] = "."}}

Registered(m) == DOMAIN m.domainToIpsets

Longest(S) == CHOOSE x \in S : \A y \in S : Len(y) <= Len(x)

----------------------------------------------------------------------------
(* C1 *)

\* `last` repeats `prev` for one address and one set without timeout, and
\* every kernel call of the two calls succeeds.
C1_Repeat ==
    /\ RepeatsOneAddress
    /\ ~last.sets[1].hasTimeout
    /\ \A i \in 1..Len(CallsOf(prev.trace)) : CallsOf(prev.trace)[i].ok
    /\ \A i \in 1..Len(CallsOf(last.trace)) : CallsOf(last.trace)[i].ok

\* The first of the two calls is the first to add the address to the set.
C1_Case == C1_Repeat /\ EntryA4(last.sets[1]) \notin prev.before

\* C1: for a domain of one set without timeout and a kernel whose calls all
\* succeed, Add called twice with the same arguments, the first call being
\* the one that adds the address, returns 1 and then 0; the first call makes
\* one add-elements call and one flush call; the second call returns 0 and
\* makes no kernel call, whatever was added before the two calls.
C1_AddTwiceCountsOnce ==
    /\ C1_Case =>
          /\ prev.n = 1 /\ prev.err = ""
          /\ CallsOf(prev.trace) = AddsA4(last.sets[1])
    /\ C1_Repeat =>
          /\ last.n = 0 /\ last.err = ""
          /\ CallsOf(last.trace) = <<>>

C1_Witness == C1_Case /\ prev.n = 1 /\ last.n = 0

----------------------------------------------------------------------------
(* C2 *)

C2_Case ==
    /\ RepeatsOneAddress
    /\ last.sets[1].hasTimeout

SubmitsA4(call) ==
    /\ call.trace # <<>>
    /\ call.trace[1].calls # <<>>
    /\ call.trace[1].calls[1].op = "SetAddElements"
    /\ call.trace[1].calls[1].elements = <<A4>>

\* addedIPs holds no entry of a set with timeout.
NoTimeoutEntries ==
    \A e \in addedIPs :
        /\ e.ipsetName \in DOMAIN mgr.nameToIpset
        /\ ~mgr.nameToIpset[e.ipsetName].hasTimeout

\* C2 as stated: for a domain of one set with timeout, Add called twice with
\* the same arguments submits the address both times and returns 1 both
\* times; addedIPs never holds an entry of a set with timeout.
C2_CountsOneBothTimes ==
    /\ C2_Case =>
         /\ SubmitsA4(prev) /\ SubmitsA4(last)
         /\ prev.n = 1 /\ last.n = 1
    /\ NoTimeoutEntries

\* C2, amended: for a domain of one set with timeout, Add called twice with
\* the same arguments submits the address to the kernel both times; each of
\* the two calls returns 1 when its add-elements and flush calls succeed and
\* 0 with the error when one of them fails; addedIPs never holds an entry of
\* a set with timeout.
C2_TimeoutSetNotCached ==
    /\ C2_Case =>
         /\ SubmitsA4(prev) /\ SubmitsA4(last)
         /\ prev.n = (IF prev.err = "" THEN 1 ELSE 0)
         /\ last.n = (IF last.err = "" THEN 1 ELSE 0)
         /\ prev.err # "" => prev.err \in KernelErrors
         /\ last.err # "" => last.err \in KernelErrors
    /\ NoTimeoutEntries

C2_Witness == C2_Case /\ prev.n = 1 /\ last.n = 1 /\ addedIPs = {}

----------------------------------------------------------------------------
(* C3 *)

\* The handle of step i of the last call failed in the kernel.
FailedAt(i) == last.trace[i].err \in KernelErrors

\* The dedup entries of the elements a completed step submitted.
EntriesOfStep(step) ==
    IF step.calls = <<>> THEN {}
    ELSE {[ipsetName |-> step.set, ipArr |-> V4InV6Prefix \o key] :
            key \in Elems(step.calls[1].elements)}

\* C3: in one Add, the first handle whose add-elements or flush call fails
\* is the last handle processed and its error is the error returned; every
\* handle before it keeps its elements in the kernel and, without timeout,
\* its entries in addedIPs; the entries the call added are those of the
\* handles before the failing one.
C3_FirstErrorEndsCall ==
    last.op = "Add" =>
      \A i \in 1..Len(last.trace) :
        FailedAt(i) =>
          /\ i = Len(last.trace)
          /\ last.err = last.trace[i].err
          /\ last.n = SumNN(SubSeq(last.trace, 1, i - 1))
          /\ \A j \in 1..(i - 1) :
               /\ last.trace[j].set = IpsetName(last.sets[j])
               /\ last.trace[j].calls # <<>> =>
                    /\ Elems(last.trace[j].calls[1].elements)
                          \subseteq kernel[<<last.sets[j].table, last.sets[j].name>>]
                    /\ ~last.sets[j].hasTimeout =>
                          EntriesOfStep(last.trace[j]) \subseteq addedIPs
          /\ addedIPs \ last.before
                = UNION {EntriesOfStep(last.trace[j]) :
                           j \in {k \in 1..(i - 1) : ~last.sets[k].hasTimeout}}

C3_Witness ==
    /\ last.op = "Add"
    /\ Len(last.sets) = 2
    /\ Len(last.trace) = 2
    /\ FailedAt(2)
    /\ last.trace[1].nn = 1
    /\ ~last.sets[1].hasTimeout
    /\ EntryA4(last.sets[1]) \in addedIPs \ last.before

----------------------------------------------------------------------------
(* C4 *)

\* The caller is between the return of Lock and the return of Unlock.
InCall(c) == pc[c] \in {"lookup", "sets", "closing", "unlock"}

\* C4: at most one caller is inside Add or Close at a time; in the order of
\* events on the lock and the connection, each call begins with its Lock and
\* the events of one call are not interleaved with those of another, so the
\* kernel calls of one Add all come before those of the next.
C4_CallsSerialized ==
    /\ \A c, d \in Callers : (InCall(c) /\ InCall(d)) => c = d
    /\ \A c \in Callers : InCall(c) => mu = c
    /\ \A i, k \in 1..Len(klog) :
         (i < k /\ klog[i].caller = klog[k].caller) =>
            \A j \in i..k : klog[j].caller = klog[i].caller
    /\ \A k \in 1..Len(klog) :
         klog[k].ev # "Lock" => (k > 1 /\ klog[k - 1].caller = klog[k].caller)

C4_Witness ==
    /\ \A c \in Callers : pc[c] = "done"
    /\ \E c, d \in Callers :
         /\ c # d
         /\ req[c].op = "Add" /\ req[d].op = "Add"
         /\ Cardinality({k \in 1..Len(klog) :
                           klog[k].caller = c /\ klog[k].ev = "SetAddElements"}) = 2
         /\ Cardinality({k \in 1..Len(klog) :
                           klog[k].caller = d /\ klog[k].ev = "SetAddElements"}) = 2
    /\ \E c \in Callers : req[c].op = "Close"

----------------------------------------------------------------------------
(* C5 *)

\* No label suffix of the host is registered, and no catch-all.
Unmatched(m, host) == (LabelSuffixes(host) \cup {<<>>}) \cap Registered(m) = {}

\* C5: when neither a label suffix of the host nor the catch-all is
\* registered, Add returns (0, nil), makes no kernel call and leaves
\* addedIPs as it was, whatever ip4s and ip6s hold.
C5_UnmatchedHostIsNoOp ==
    (last.op = "Add" /\ Unmatched(mgr, last.host)) =>
        /\ last.n = 0 /\ last.err = ""
        /\ last.trace = <<>>
        /\ addedIPs = last.before

C5_Witness ==
    /\ last.op = "Add"
    /\ Unmatched(mgr, last.host)
    /\ last.ip4s = <<A4>>
    /\ last.ip6s = <<X6>>
    /\ last.n = 0

----------------------------------------------------------------------------
(* C6 *)

\* What the lookup of a host is to return.
ExpectedSets(m, host) ==
    LET R == LabelSuffixes(host) \cap Registered(m)
    IN  IF R # {} THEN m.domainToIpsets[Longest(R)]
        ELSE IF <<>> \in Registered(m) THEN m.domainToIpsets[<<>>]
        ELSE <<>>

\* C6: lookupHost returns the list registered for the longest registered
\* label suffix of the host, the list of the catch-all "" when no label
\* suffix is registered, and the empty list when there is no catch-all.
C6_LongestSuffixWins == lk.done => lk.sets = ExpectedSets(mgr, lk.host)

C6_Witness ==
    /\ lk.done
    /\ Len(lk.host) >= 3
    /\ lk.host[1] # "." /\ lk.host[Len(lk.host)] # "."
    /\ Cardinality(LabelSuffixes(lk.host) \cap Registered(mgr)) >= 2
    /\ <<>> \in Registered(mgr)
    /\ lk.sets # <<>>
    /\ lk.sets[1].name = Longest(LabelSuffixes(lk.host) \cap Registered(mgr))

----------------------------------------------------------------------------
(* C7 *)

\* The calls of Close that have gone past conn.CloseLasting().
ClosesDone == {c \in Callers : req[c].op = "Close" /\ pc[c] \in {"unlock", "done"}}

\* C7 as stated: once every call has returned and Close was called at least
\* once, the connection has been closed exactly once.
C7_ClosedExactlyOnce ==
    ((\A c \in Callers : pc[c] \in {"idle", "done"}) /\ closeCalls >= 1)
        => closeCount = 1

\* C7, amended: every call of Close invokes conn.CloseLasting() exactly once
\* and Add never does, so the connection's close has been invoked as many
\* times as Close calls have gone through.
C7_ClosedOncePerClose == closeCount = Cardinality(ClosesDone)

C7_Witness ==
    /\ \A c \in Callers : pc[c] = "done"
    /\ Cardinality(ClosesDone) = 2
    /\ \E c \in Callers : req[c].op = "Add"
    /\ closeCount = 2

----------------------------------------------------------------------------
(* C8 *)

\* `last` retries the call `prev`, which returned a kernel error.
C8_Case ==
    /\ last.op = "Add"
    /\ prev.op = "Add"
    /\ prev.err \in KernelErrors

\* The handles of the failed call that went through and submitted elements,
\* without timeout and with timeout.
CompletedSteps(timeout) ==
    {i \in 1..(Len(prev.trace) - 1) :
        prev.trace[i].calls # <<>> /\ prev.trace[i].hasTimeout = timeout}

\* The retry makes no kernel call and counts nothing for handle i.
NotResubmitted(i) ==
    i <= Len(last.trace) =>
        /\ last.trace[i].calls = <<>>
        /\ last.trace[i].nn = 0

\* The retry submits for handle i the elements the failed call submitted.
Resubmitted(i) ==
    /\ i <= Len(last.trace)
    /\ last.trace[i].calls # <<>>
    /\ last.trace[i].calls[1].op = "SetAddElements"
    /\ last.trace[i].calls[1].elements = prev.trace[i].calls[1].elements

\* C8 as stated: in the retry of an Add that returned a kernel error, a
\* handle without timeout that went through in the failed call is neither
\* submitted nor counted again, and a handle with timeout that went through
\* is submitted and counted again.
C8_TimeoutPairsCountedAgain ==
    C8_Case =>
      /\ \A i \in CompletedSteps(FALSE) : NotResubmitted(i)
      /\ \A i \in CompletedSteps(TRUE) :
           Resubmitted(i) /\ last.trace[i].nn = prev.trace[i].nn

\* C8, amended: in the retry of an Add that returned a kernel error, a handle
\* without timeout that went through in the failed call is neither submitted
\* nor counted again; a handle with timeout that went through is submitted
\* again when the retry reaches it, that is when no earlier handle fails in
\* the retry, and counted again when its calls succeed in the retry.
C8_RetryAfterError ==
    C8_Case =>
      /\ \A i \in CompletedSteps(FALSE) : NotResubmitted(i)
      /\ \A i \in CompletedSteps(TRUE) :
           /\ (\A j \in 1..(i - 1) : j <= Len(last.trace) /\ last.trace[j].err = "")
                 => Resubmitted(i)
           /\ (i <= Len(last.trace) /\ last.trace[i].err = "")
                 => Resubmitted(i) /\ last.trace[i].nn = prev.trace[i].nn
           /\ (i <= Len(last.trace) /\ last.trace[i].err # "")
                 => last.trace[i].nn = 0

C8_Witness ==
    /\ C8_Case
    /\ last.sets = <<HandleP, HandleQ, HandleQ>>
    /\ CompletedSteps(FALSE) = {1}
    /\ CompletedSteps(TRUE) = {2}
    /\ prev.n = 2
    /\ last.trace[1].calls = <<>>
    /\ Resubmitted(2)
    /\ last.err = ""
    /\ last.n = 2

----------------------------------------------------------------------------
(* C9 *)

----------------------------------------------------------------------------
(* C10 *)

\* An identifier of four fields, "4", "inet", and a table and set that name
\* an IPv4 set of the kernel.
AcceptedFields(fs) ==
    /\ Len(fs) = 4
    /\ fs[1] = <<"4">>
    /\ fs[2] = <<"i", "n", "e", "t">>
    /\ <<fs[3], fs[4]>> \in DOMAIN KernelSets
    /\ KernelSets[<<fs[3], fs[4]>>].keyType = "ipv4_addr"

----------------------------------------------------------------------------
(* C11 *)

\* The line written as a text of the configuration.
SpecOfLine(text) == CHOOSE l \in LineSpecs : l.text = text

\* The handle the kernel gives for a set name of table t.
HandleOf(name) ==
    [table |-> TableT, name |-> name,
     keyType |-> KernelSets[<<TableT, name>>].keyType,
     hasTimeout |-> KernelSets[<<TableT, name>>].hasTimeout]

\* The handle list of a line, in identifier order.
HandlesOfLine(l) == [i \in 1..Len(l.sets) |-> HandleOf(l.sets[i])]

\* How many times a line names a host.
Occurrences(l, host) == Cardinality({i \in 1..Len(l.hosts) : l.hosts[i] = host})

RECURSIVE Repeat(_, _)
Repeat(list, k) == IF k = 0 THEN <<>> ELSE list \o Repeat(list, k - 1)

RECURSIVE ConcatOfLines(_, _, _)
\* The concatenation, in line order, of the handle lists of the lines that
\* name the host: once per line, or once per time the line names it.
ConcatOfLines(lines, host, perOccurrence) ==
    IF lines = <<>> THEN <<>>
    ELSE LET l == SpecOfLine(Head(lines))
             k == Occurrences(l, host)
         IN  Repeat(HandlesOfLine(l), IF perOccurrence THEN k ELSE IF k > 0 THEN 1 ELSE 0)
                \o ConcatOfLines(Tail(lines), host, perOccurrence)

HostsNamed(lines) ==
    UNION {Elems(SpecOfLine(lines[i]).hosts) : i \in 1..Len(lines)}

\* C11 as stated: after initialization the handle list of each domain is the
\* concatenation, in line order and identifier order, of the handle lists of
\* the lines that name the domain.
C11_ConcatOncePerLine ==
    mgr.state = "Ready" =>
        /\ Registered(mgr) = HostsNamed(conf)
        /\ \A h \in Registered(mgr) :
             mgr.domainToIpsets[h] = ConcatOfLines(conf, h, FALSE)

\* C11, amended: after initialization the handle list of each domain is the
\* concatenation, in line order and identifier order, of the handle lists of
\* the lines that name the domain, the list of a line taken once for each
\* time the line names the domain; no later line overwrites or drops what an
\* earlier line gave.
C11_ConcatAcrossLines ==
    mgr.state = "Ready" =>
        /\ Registered(mgr) = HostsNamed(conf)
        /\ \A h \in Registered(mgr) :
             mgr.domainToIpsets[h] = ConcatOfLines(conf, h, TRUE)

C11_Witness ==
    /\ mgr.state = "Ready"
    /\ Len(conf) = 3
    /\ Occurrences(SpecOfLine(conf[1]), HostB) = 1
    /\ Occurrences(SpecOfLine(conf[2]), HostB) = 1
    /\ Occurrences(SpecOfLine(conf[3]), HostB) = 2
    /\ mgr.domainToIpsets[HostB] = <<HandleP, HandleQ, HandleP, HandleQ, HandleQ>>

----------------------------------------------------------------------------
(* C12 *)

RECURSIVE SetsReferenced(_)
\* The sets the lines refer to, in line order and identifier order.
SetsReferenced(lines) ==
    IF lines = <<>> THEN <<>>
    ELSE [i \in 1..Len(SpecOfLine(Head(lines)).sets) |->
             <<TableT, SpecOfLine(Head(lines)).sets[i]>>]
         \o SetsReferenced(Tail(lines))

RECURSIVE FirstReferences(_, _)
\* A list without the repetitions of what came earlier in it.
FirstReferences(refs, seen) ==
    IF refs = <<>> THEN <<>>
    ELSE IF Head(refs) \in seen THEN FirstReferences(Tail(refs), seen)
    ELSE <<Head(refs)>> \o FirstReferences(Tail(refs), seen \cup {Head(refs)})

\* C12: during initialization no set is queried twice with GetSetByName; the
\* queries made are the first references to each set, in the order of the
\* configuration, all of them when initialization succeeds and the first of
\* them when it fails.
C12_OneQueryPerIdentifier ==
    LET firsts == FirstReferences(SetsReferenced(conf), {})
    IN  /\ \A i, j \in 1..Len(getSetLog) : getSetLog[i] = getSetLog[j] => i = j
        /\ Len(getSetLog) <= Len(firsts)
        /\ getSetLog = SubSeq(firsts, 1, Len(getSetLog))
        /\ mgr.state = "Ready" => getSetLog = firsts
        /\ mgr.state = "Ready" => DOMAIN mgr.nameToIpset
                                     = {Ident4(q[1], q[2]) : q \in Elems(getSetLog)}

C12_Witness ==
    /\ mgr.state = "Ready"
    /\ Len(conf) = 3
    /\ Len(SetsReferenced(conf)) = 4
    /\ getSetLog = << <<TableT, SetP>>, <<TableT, SetQ>> >>

----------------------------------------------------------------------------
(* C13 *)

\* newManager has run on the configuration b -> p (ipv4_addr), c -> x
\* (ipv6_addr), and the connection was created.
C13_Case ==
    /\ conf = ConfKeyType6
    /\ mgr.state # "Uninitialized"
    /\ mgr.err # "creating nftables connection"

\* C13: a manager is built from a configuration that maps one group of
\* domains to an IPv4 set and another to an IPv6 set; Add for a domain of the
\* IPv6 group puts each address of ip6s into the IPv6 set and returns their
\* number, as Add for a domain of the IPv4 group puts the IPv4 address into
\* the IPv4 set and returns 1.
C13_IP6AddressesAdded ==
    C13_Case =>
        /\ mgr.state = "Ready"
        /\ MapGet(mgr.domainToIpsets, HostC) = <<HandleX>>
        /\ (last.op = "Add" /\ last.host = HostB /\ last.ip4s = <<A4>> /\ last.err = "")
              => (last.n = 1 /\ A4 \in kernel[<<TableT, SetP>>])
        /\ (last.op = "Add" /\ last.host = HostC /\ last.ip6s # <<>> /\ last.err = "")
              => (last.n = Len(last.ip6s)
                  /\ Elems(last.ip6s) \subseteq kernel[<<TableT, SetX>>])

----------------------------------------------------------------------------
(* C14 *)

\* The key of the kernel set an entry of addedIPs belongs to.
KernelKeyOf(e) ==
    <<mgr.nameToIpset[e.ipsetName].table, mgr.nameToIpset[e.ipsetName].name>>

\* The step made an add-elements call and a flush call that both succeeded.
BothSucceeded(step) ==
    /\ Len(step.calls) = 2
    /\ step.calls[1].op = "SetAddElements" /\ step.calls[1].ok
    /\ step.calls[2].op = "Flush" /\ step.calls[2].ok

\* One of the kernel calls of the step failed.
SomeCallFailed(step) == \E k \in 1..Len(step.calls) : ~step.calls[k].ok

\* C14: every entry of addedIPs names an address its kernel set holds; the
\* entries an Add recorded are entries of handles whose add-elements call,
\* with that address among its elements, and whose flush call both
\* succeeded; a handle whose add-elements or flush call failed has none of
\* its elements in addedIPs.
C14_CachedOnlyAfterSuccess ==
    /\ \A e \in addedIPs :
         /\ e.ipsetName \in DOMAIN mgr.nameToIpset
         /\ SubSeq(e.ipArr, 13, 16) \in kernel[KernelKeyOf(e)]
    /\ last.op = "Add" =>
         /\ \A e \in addedIPs \ last.before :
              \E i \in 1..Len(last.trace) :
                 BothSucceeded(last.trace[i]) /\ e \in EntriesOfStep(last.trace[i])
         /\ \A i \in 1..Len(last.trace) :
              SomeCallFailed(last.trace[i])
                 => EntriesOfStep(last.trace[i]) \cap addedIPs = {}

C14_Witness ==
    /\ last.op = "Add" /\ prev.op = "Add"
    /\ prev.err = "flushing"
    /\ ~prev.trace[Len(prev.trace)].hasTimeout
    /\ EntryA4(last.sets[1]) \notin last.before
    /\ last.err = ""
    /\ BothSucceeded(last.trace[1])
    /\ EntryA4(last.sets[1]) \in addedIPs

----------------------------------------------------------------------------
(* C15 *)

\* For the handle of the step, add-elements succeeded and the flush failed.
FlushFailedAt(step) ==
    /\ Len(step.calls) = 2
    /\ step.calls[1].op = "SetAddElements" /\ step.calls[1].ok
    /\ step.calls[2].op = "Flush" /\ ~step.calls[2].ok

\* The retry reaches handle i: no earlier handle fails in it.
RetryReaches(i) ==
    \A j \in 1..(i - 1) : j <= Len(last.trace) /\ last.trace[j].err = ""

----------------------------------------------------------------------------
(* C16 *)

\* The address has a 4-byte form: it is 4 bytes long, or 16 bytes long with
\* the prefix ::ffff:0:0/96.
IPv4Representable(ip) ==
    \/ Len(ip) = 4
    \/ Len(ip) = 16 /\ SubSeq(ip, 1, 12) = <<0, 0, 0, 0, 0, 0, 0, 0, 0, 0, 255, 255>>

\* The 4 bytes of an IPv4-representable address.
KeyOf(ip) == SubSeq(ip, Len(ip) - 3, Len(ip))

\* The entry of addedIPs for an IPv4-representable address in a set.
EntryFor(setName, ip) ==
    [ipsetName |-> setName, ipArr |-> <<0, 0, 0, 0, 0, 0, 0, 0, 0, 0, 255, 255>> \o KeyOf(ip)]

\* addedIPs as handle i of the last call found it: what the call started
\* with and what its earlier handles recorded.
CacheAt(i) ==
    last.before \cup
    UNION {EntriesOfStep(last.trace[j]) :
             j \in {k \in 1..(i - 1) : BothSucceeded(last.trace[k])
                                        /\ ~last.trace[k].hasTimeout}}

\* The positions of ip4s that are IPv4-representable and not in addedIPs for
\* handle i when it is processed.
Batch(i) ==
    {k \in 1..Len(last.ip4s) :
        /\ IPv4Representable(last.ip4s[k])
        /\ EntryFor(last.trace[i].set, last.ip4s[k]) \notin CacheAt(i)}

RECURSIVE KeysAt(_, _)
\* The 4-byte keys of the chosen positions of a list, in list order.
KeysAt(ips, positions) ==
    IF ips = <<>> THEN <<>>
    ELSE KeysAt(SubSeq(ips, 1, Len(ips) - 1), positions)
            \o (IF Len(ips) \in positions THEN <<KeyOf(ips[Len(ips)])>> ELSE <<>>)

\* An IPv4 handle with an empty batch makes no kernel call, counts 0 and is
\* followed by the next handle.
EmptyBatchSkipped(i) ==
    Batch(i) = {} =>
        /\ last.trace[i].calls = <<>>
        /\ last.trace[i].nn = 0
        /\ last.trace[i].err = ""
        /\ i < Len(last.sets) => Len(last.trace) > i

\* C16 as stated: an IPv4 handle with an empty batch is skipped, and one with
\* a batch makes exactly one add-elements call followed by exactly one flush
\* call.
C16_OneAddOneFlush ==
    last.op = "Add" =>
      \A i \in 1..Len(last.trace) :
        last.trace[i].keyType = TypeIPAddr =>
          /\ EmptyBatchSkipped(i)
          /\ Batch(i) # {} =>
               /\ Len(last.trace[i].calls) = 2
               /\ last.trace[i].calls[1].op = "SetAddElements"
               /\ last.trace[i].calls[1].elements = KeysAt(last.ip4s, Batch(i))
               /\ last.trace[i].calls[2].op = "Flush"

\* C16, amended: an IPv4 handle with an empty batch is skipped; one with a
\* batch makes exactly one add-elements call with the batch and, when that
\* call succeeds, exactly one flush call after it; when add-elements fails no
\* flush call is made.
C16_BatchDecidesCalls ==
    last.op = "Add" =>
      \A i \in 1..Len(last.trace) :
        last.trace[i].keyType = TypeIPAddr =>
          /\ EmptyBatchSkipped(i)
          /\ Batch(i) # {} =>
               /\ Len(last.trace[i].calls) \in {1, 2}
               /\ last.trace[i].calls[1].op = "SetAddElements"
               /\ last.trace[i].calls[1].elements = KeysAt(last.ip4s, Batch(i))
               /\ Len(last.trace[i].calls) = 2 <=> last.trace[i].calls[1].ok
               /\ Len(last.trace[i].calls) = 2 => last.trace[i].calls[2].op = "Flush"

C16_Witness ==
    /\ last.op = "Add"
    /\ last.sets = <<HandleP, HandleQ, HandleP>>
    /\ last.ip4s = <<A4, A4>>
    /\ Len(last.trace) = 3
    /\ Batch(1) = {1, 2}
    /\ Len(last.trace[1].calls) = 2
    /\ Batch(3) = {}
    /\ last.trace[3].calls = <<>>

----------------------------------------------------------------------------
(* C17 *)

\* C17: once the manager is Ready, no step of Add or Close changes
\* nameToIpset or domainToIpsets or makes a GetSetByName query, and addedIPs
\* only gains entries.
C17_ReadyManagerIsFrozen ==
    [][mgr.state = "Ready" =>
          /\ mgr' = mgr
          /\ getSetLog' = getSetLog
          /\ addedIPs \subseteq addedIPs']_vars

C17_Witness ==
    /\ mgr.state = "Ready"
    /\ last.op = "Add"
    /\ last.err \in KernelErrors
    /\ last.before # {}
    /\ last.before \subseteq addedIPs
    /\ getSetLog # <<>>

----------------------------------------------------------------------------
(* C18 *)

\* The handles of the last call that went through: all of them when the call
\* succeeded, those before the failing one when it failed.
CompletedHandles == {i \in 1..Len(last.trace) : last.trace[i].err = ""}

RECURSIVE SumOver(_, _)
\* The sum of f over a finite set of numbers.
SumOver(f, S) ==
    IF S = {} THEN 0
    ELSE LET x == CHOOSE y \in S : TRUE IN f[x] + SumOver(f, S \ {x})

\* C18: the count Add returns is the sum, over the handles that went through
\* in list order, of the number of positions of ip4s that are
\* IPv4-representable and not in addedIPs for the handle when it is
\* processed; a successful call goes through every handle of the domain.
C18_CountIsSumOfBatches ==
    last.op = "Add" =>
        /\ last.n = SumOver([i \in 1..Len(last.trace) |-> Cardinality(Batch(i))],
                            CompletedHandles)
        /\ \A i \in 1..Len(last.trace) : last.trace[i].set = IpsetName(last.sets[i])
        /\ last.err = "" => Len(last.trace) = Len(last.sets)
        /\ last.err # "" =>
              CompletedHandles = 1..(Len(last.trace) - 1)

C18_Witness ==
    /\ last.op = "Add"
    /\ last.sets = <<HandleP, HandleQ, HandleP>>
    /\ last.ip4s = <<A4, A4>>
    /\ last.err = ""
    /\ last.before = {}
    /\ last.n = 4

----------------------------------------------------------------------------
(* C19 *)

\* The callers that called Add.
Adders == {c \in Callers : req[c].op = "Add"}

\* The kernel calls a caller made.
KernelCallsOf(c) ==
    SelectSeq(klog, LAMBDA e : e.caller = c /\ e.ev \in {"SetAddElements", "Flush"})

\* Two or more callers called Add, all for the domain b of the one set p
\* without timeout, all have returned, and no kernel call failed.
C19_Case ==
    /\ Cardinality(Adders) >= 2
    /\ \A c \in Adders :
         /\ pc[c] = "done"
         /\ req[c].host = HostB
         /\ req[c].err = ""

\* C19: when two or more callers concurrently call Add with the same domain
\* and address for a set without timeout and all kernel calls succeed,
\* exactly one call makes the add-elements and flush calls and returns 1,
\* every other call returns 0 without a kernel call, and the counts sum to 1.
C19_OneCallerAdds ==
    C19_Case =>
        /\ \E c \in Adders :
             /\ req[c].n = 1
             /\ KernelCallsOf(c) = <<Event(c, "SetAddElements"), Event(c, "Flush")>>
             /\ \A d \in Adders \ {c} : req[d].n = 0 /\ KernelCallsOf(d) = <<>>
        /\ SumOver([c \in Callers |-> req[c].n], Adders) = 1

C19_Witness ==
    /\ C19_Case
    /\ Adders = Callers
    /\ req[2].n = 1
    /\ req[1].n = 0 /\ req[3].n = 0

----------------------------------------------------------------------------
(* C20 *)

\* The configuration names a set whose key type is not ipv4_addr.
NamesOtherKeyType == conf = ConfKeyType6

====
